---- MODULE Spec2Model ----
(***************************************************************************)
(* Model of orthoseg/model/model_helper.py: the file name codec            *)
(* (format_model_filename / parse_model_filename), the directory scan      *)
(* (get_models, get_best_model) and the retention cycle                    *)
(* (save_and_clean_models).                                                *)
(*                                                                         *)
(* Strings are sequences of one-character strings.  An accuracy is an      *)
(* integer number of millionths (One = 1.0), so that the ".5f" of the      *)
(* file name really rounds and the in-memory value of a new model can      *)
(* differ from the value read back from its file name.                     *)
(***************************************************************************)
EXTENDS Integers, Sequences, FiniteSets, TLC

\* ------------------------------------------------------------------------
\* Bounds of the model
\* ------------------------------------------------------------------------
MaxInitFiles == 2   \* entries in the directory before the first cycle
MaxCycles == 2      \* calls of save_and_clean_models in one behaviour
MaxEpoch == 1       \* new_model_epoch ranges over 1..MaxEpoch
MaxArchLen == 3     \* characters of a model_architecture given to the codec
MaxExtraFields == 5 \* fields after the third in a name given to the parser

\* ------------------------------------------------------------------------
\* Program constants
\* ------------------------------------------------------------------------
One == 1000000      \* the literal 1 of "1-new_model_monitor_train"
Decimals == 5       \* the precision of ":.5f"

\* ------------------------------------------------------------------------
\* Python str / int / float primitives used by the codec
\* ------------------------------------------------------------------------
DigitChars == <<"0", "1", "2", "3", "4", "5", "6", "7", "8", "9">>

IsDigitChar(c) == \E i \in 1..10 : DigitChars[i] = c

DigitVal(c) == (CHOOSE i \in 1..10 : DigitChars[i] = c) - 1

\* str.isdigit(): non-empty and every character a digit
IsDigit(s) == Len(s) > 0 /\ \A i \in 1..Len(s) : IsDigitChar(s[i])

RECURSIVE StrToNat(_)
StrToNat(s) ==
    IF Len(s) = 0 THEN 0
    ELSE 10 * StrToNat(SubSeq(s, 1, Len(s) - 1)) + DigitVal(s[Len(s)])

RECURSIVE NatToStr(_)
NatToStr(n) ==
    IF n < 10 THEN <<DigitChars[n + 1]>>
    ELSE NatToStr(n \div 10) \o <<DigitChars[(n % 10) + 1]>>

RECURSIVE Pow10(_)
Pow10(k) == IF k = 0 THEN 1 ELSE 10 * Pow10(k - 1)

RECURSIVE ZeroPad(_, _)
ZeroPad(s, width) == IF Len(s) >= width THEN s ELSE ZeroPad(<<"0">> \o s, width)

\* f"{n:02d}" for n >= 0
Fmt02d(n) == ZeroPad(NatToStr(n), 2)

\* f"{v:.5f}" for v >= 0: v is rounded to Decimals decimals
Fmt5f(v) ==
    LET drop == Pow10(6 - Decimals)
        r == (v + (drop \div 2)) \div drop
        scale == Pow10(Decimals)
    IN NatToStr(r \div scale) \o <<".">> \o ZeroPad(NatToStr(r % scale), Decimals)

RECURSIVE SplitFrom(_, _, _, _, _)
SplitFrom(s, sep, i, cur, acc) ==
    IF i > Len(s) THEN Append(acc, cur)
    ELSE IF s[i] = sep THEN SplitFrom(s, sep, i + 1, <<>>, Append(acc, cur))
    ELSE SplitFrom(s, sep, i + 1, Append(cur, s[i]), acc)

\* s.split(sep) for a one-character sep
Split(s, sep) == SplitFrom(s, sep, 1, <<>>, <<>>)

RECURSIVE Join(_, _)
\* sep.join(parts)
Join(parts, sep) ==
    IF Len(parts) = 0 THEN <<>>
    ELSE IF Len(parts) = 1 THEN parts[1]
    ELSE parts[1] \o <<sep>> \o Join(Tail(parts), sep)

EndsWith(s, t) ==
    Len(s) >= Len(t) /\ SubSeq(s, Len(s) - Len(t) + 1, Len(s)) = t

\* int(s) succeeds (signs, blanks and digit separators are outside the alphabet)
IsIntLiteral(s) == IsDigit(s)

\* float(s) succeeds: digits, optionally a point and more digits
IsFloatLiteral(s) ==
    LET p == Split(s, ".")
    IN /\ Len(p) \in {1, 2}
       /\ \A i \in 1..Len(p) : \A j \in 1..Len(p[i]) : IsDigitChar(p[i][j])
       /\ \E i \in 1..Len(p) : Len(p[i]) > 0
       /\ (Len(p) = 2 => Len(p[2]) <= 6)

\* float(s), in millionths
StrToFloat(s) ==
    LET p == Split(s, ".")
        frac == IF Len(p) = 2 THEN p[2] ELSE <<>>
    IN StrToNat(p[1]) * One + StrToNat(frac) * Pow10(6 - Len(frac))

\* position of the last "." that starts a suffix of a path name, 0 if none
DotPos(name) ==
    LET ds == {i \in 1..Len(name) : name[i] = "."}
        last == CHOOSE i \in ds : \A j \in ds : j <= i
    IN IF ds = {} THEN 0
       ELSE IF 1 < last /\ last < Len(name) THEN last ELSE 0

\* pathlib.PurePath.suffix and .stem
PathSuffix(name) ==
    IF DotPos(name) = 0 THEN <<>> ELSE SubSeq(name, DotPos(name), Len(name))

PathStem(name) ==
    IF DotPos(name) = 0 THEN name ELSE SubSeq(name, 1, DotPos(name) - 1)

SuffixTf == <<"_", "t", "f">>
SuffixHdf5 == <<".", "h", "d", "f", "5">>
SuffixH5 == <<".", "h", "5">>

\* ------------------------------------------------------------------------
\* The file name codec
\* ------------------------------------------------------------------------
format_model_basefilename(segment_subject, traindata_version, model_architecture, hyperparams_version) ==
    LET filename == segment_subject \o <<"_">> \o Fmt02d(traindata_version)
                        \o <<"_">> \o model_architecture
    IN IF hyperparams_version > 0
       THEN filename \o <<"+">> \o Fmt02d(hyperparams_version)
       ELSE filename

format_model_filename(segment_subject, traindata_version, model_architecture, hyperparams_version, acc_train, acc_val, acc_combined, epoch, save_format) ==
    format_model_basefilename(segment_subject, traindata_version,
                              model_architecture, hyperparams_version)
        \o <<"_">> \o Fmt5f(acc_combined) \o <<"_">> \o Fmt5f(acc_train)
        \o <<"_">> \o Fmt5f(acc_val) \o <<"_">> \o NatToStr(epoch)
        \o (IF save_format = "tf" THEN SuffixTf ELSE SuffixHdf5)

\* The three outcomes of parse_model_filename: a dict, None, an exception.
ParseNone == [res |-> "none"]
ParseRaise == [res |-> "raise"]

\* SplitTrainInfo leaving the "+NN" in model_architecture
SplitTrainInfoKeepsSuffix(model_train_info) ==
    LET vals == Split(model_train_info, "+")
    IN IF IsDigit(vals[Len(vals)])
       THEN [hyperparams_version |-> StrToNat(vals[Len(vals)]),
             model_architecture |-> model_train_info]
       ELSE [hyperparams_version |-> 0,
             model_architecture |-> model_train_info]

\* lines 140-147: model_train_info -> (model_architecture, hyperparams_version)
SplitTrainInfo(model_train_info) ==
    LET vals == Split(model_train_info, "+")
    IN IF IsDigit(vals[Len(vals)])
       THEN [hyperparams_version |-> StrToNat(vals[Len(vals)]),
             model_architecture |-> Join(SubSeq(vals, 1, Len(vals) - 1), "+")]
       ELSE [hyperparams_version |-> 0,
             model_architecture |-> model_train_info]

\* lines 134-179 on the fields of the name.
\* A row's filepath is a pathlib.Path here and a str for the new model
\* (line 447): the two never compare equal.
ParseValues(name, param_values, info, save_format) ==
    IF Len(param_values) < 3 THEN ParseRaise   \* warning only, then [1] or [2] fails
    ELSE IF ~IsIntLiteral(param_values[2]) THEN ParseRaise
    ELSE IF Len(param_values) > 3
            /\ (\/ Len(param_values) < 7
                \/ \E k \in 4..6 : ~IsFloatLiteral(param_values[k])
                \/ ~IsIntLiteral(param_values[7]))
         THEN ParseRaise
    ELSE [res |-> "ok",
          row |-> [filepath |-> [kind |-> "Path", name |-> name],
                   segment_subject |-> param_values[1],
                   traindata_version |-> StrToNat(param_values[2]),
                   model_architecture |-> info.model_architecture,
                   hyperparams_version |-> info.hyperparams_version,
                   acc_combined |-> IF Len(param_values) > 3
                                    THEN StrToFloat(param_values[4]) ELSE 0,
                   acc_train |-> IF Len(param_values) > 3
                                 THEN StrToFloat(param_values[5]) ELSE 0,
                   acc_val |-> IF Len(param_values) > 3
                               THEN StrToFloat(param_values[6]) ELSE 0,
                   epoch |-> IF Len(param_values) > 3
                             THEN StrToNat(param_values[7]) ELSE 0,
                   save_format |-> save_format]]

\* lines 140-147 on the third field, if there is one
TrainInfoOf(param_values) ==
    IF Len(param_values) < 3 THEN SplitTrainInfo(<<>>)
    ELSE SplitTrainInfo(param_values[3])

\* lines 132-179, once the name to split and the save format are known
ParseFieldsOf(name, param_values, save_format) ==
    ParseValues(name, param_values, TrainInfoOf(param_values), save_format)

ParseFields(name, filename, save_format) ==
    ParseFieldsOf(name, Split(filename, "_"), save_format)

\* parse_model_filename(filepath), filepath = (name, filepath.is_dir())
parse_model_filename(name, isdir) ==
    IF isdir
    THEN IF ~EndsWith(name, SuffixTf) THEN ParseNone
         ELSE ParseFields(name, name, "tf")
    ELSE IF PathSuffix(name) \notin {SuffixH5, SuffixHdf5} THEN ParseNone
         ELSE ParseFields(name, PathStem(name), "h5")

\* ------------------------------------------------------------------------
\* save_and_clean_models: the pure parts
\* ------------------------------------------------------------------------
IdentityFilter(c) ==
    [segment_subject |-> c.segment_subject,
     model_architecture |-> c.model_architecture,
     traindata_version |-> c.traindata_version,
     hyperparams_version |-> c.hyperparams_version]

\* NewModelAcc forgetting to turn the combined metric around for mode min
NewModelAccCombinedAsIs(c) ==
    LET combined == (c.new_model_monitor_train + c.new_model_monitor_val) \div 2
    IN IF c.monitor_metric_mode = "max"
       THEN [acc_combined |-> combined,
             acc_train |-> c.new_model_monitor_train,
             acc_val |-> c.new_model_monitor_val]
       ELSE [acc_combined |-> combined,
             acc_train |-> One - c.new_model_monitor_train,
             acc_val |-> One - c.new_model_monitor_val]

\* lines 419-432: the accuracies of the new model
NewModelAcc(c) ==
    LET combined == (c.new_model_monitor_train + c.new_model_monitor_val) \div 2
    IN IF c.monitor_metric_mode = "max"
       THEN [acc_combined |-> combined,
             acc_train |-> c.new_model_monitor_train,
             acc_val |-> c.new_model_monitor_val]
       ELSE [acc_combined |-> One - combined,
             acc_train |-> One - c.new_model_monitor_train,
             acc_val |-> One - c.new_model_monitor_val]

\* lines 434-443
NewModelFilename(c) ==
    format_model_filename(c.segment_subject, c.traindata_version,
                          c.model_architecture, c.hyperparams_version,
                          NewModelAcc(c).acc_train, NewModelAcc(c).acc_val,
                          NewModelAcc(c).acc_combined, c.new_model_epoch,
                          c.save_format)

\* what new_model.save(new_model_path) leaves on disk
NewModelEntry(c) == [name |-> NewModelFilename(c), isdir |-> c.save_format = "tf"]

\* lines 447-459: the row appended for the new model
NewModelRow(c) ==
    [filepath |-> [kind |-> "str", name |-> NewModelFilename(c)],
     segment_subject |-> c.segment_subject,
     traindata_version |-> c.traindata_version,
     model_architecture |-> c.model_architecture,
     hyperparams_version |-> c.hyperparams_version,
     acc_combined |-> NewModelAcc(c).acc_combined,
     acc_train |-> NewModelAcc(c).acc_train,
     acc_val |-> NewModelAcc(c).acc_val,
     epoch |-> c.new_model_epoch,
     save_format |-> c.save_format]

RECURSIVE SortedOrders(_)
\* line 464: sort_values(by='acc_combined', ascending=False); the sort is not
\* stable, so rows with equal acc_combined may come out in any order.
SortedOrders(rows) ==
    IF rows = {} THEN {<<>>}
    ELSE UNION {{<<x>> \o rest : rest \in SortedOrders(rows \ {x})} :
                   x \in {y \in rows :
                             \A z \in rows : z.acc_combined <= y.acc_combined}}

\* BetterOnesBestOnly with > for >=
BetterOnesBestOnlyStrict(df, model_info) ==
    {o \in df : /\ o.filepath # model_info.filepath
                /\ o.acc_combined > model_info.acc_combined}

\* lines 470-472
BetterOnesBestOnly(df, model_info) ==
    {o \in df : /\ o.filepath # model_info.filepath
                /\ o.acc_combined >= model_info.acc_combined}

\* BetterOnesPareto without the comparison of acc_val
BetterOnesParetoNoVal(df, model_info) ==
    {o \in df : /\ o.filepath # model_info.filepath
                /\ o.acc_combined >= model_info.acc_combined
                /\ o.acc_train >= model_info.acc_train}

\* lines 478-482
BetterOnesPareto(df, model_info) ==
    {o \in df : /\ o.filepath # model_info.filepath
                /\ o.acc_combined >= model_info.acc_combined
                /\ o.acc_train >= model_info.acc_train
                /\ o.acc_val >= model_info.acc_val}

\* KeepModel with the test of len(better_ones_df) turned around
KeepModelInverted(df, model_info, save_best_only) ==
    IF save_best_only THEN BetterOnesBestOnly(df, model_info) # {}
    ELSE BetterOnesPareto(df, model_info) # {}

\* lines 468-484: keep_model
KeepModel(df, model_info, save_best_only) ==
    IF save_best_only THEN BetterOnesBestOnly(df, model_info) = {}
    ELSE BetterOnesPareto(df, model_info) = {}

\* ------------------------------------------------------------------------
\* State
\* ------------------------------------------------------------------------
VARIABLES
    disk,           \* the entries of model_save_dir
    pc,             \* "idle", "loop" (inside the for of line 465), "returned", "raised";
                    \* "deleting" (between lines 511 and 513) in SpecRace
    new_model_path, \* the local of line 411: a file name, <<>> for None
    call,           \* the arguments of the current (or last) save_and_clean_models
    model_info_df,  \* the rows of model_info_df after line 459
    sorted,         \* model_info_sorted_df, as a sequence
    idx,            \* number of rows of sorted the loop has processed
    verdict,        \* keep_model of each processed row
    ops,            \* the persists and deletes of this call, in order
    disk0,          \* the directory when this call started
    best,           \* <<row>> printed as BEST MODEL, <<>> if none
    prev,           \* <<[call, ops]>> of the preceding call if it returned and had
                    \* no new model, else <<>>
    ncycles,        \* calls started so far
    codec,          \* state of the codec round trip (specification SpecCodec)
    fs_reads,       \* listings and existence checks of the directory in this call
    callback,       \* the ModelCheckpointExt object (specification SpecCallback)
    query           \* a call of get_best_model by itself (specification SpecQuery)

vars == <<disk, pc, new_model_path, call, model_info_df, sorted, idx, verdict, ops, disk0,
          best, prev, ncycles, codec, fs_reads, callback, query>>

\* ------------------------------------------------------------------------
\* Inputs
\* ------------------------------------------------------------------------
SubjectR == <<"r">>
ArchU == <<"u">>

\* raw (train, val) values of the monitored metric, by mode; their
\* accuracies lie in {0.7, 0.799994, 0.8, 0.9}
MetricsMax == {799994, 800000, 900000} \X {800000, 900000}
MetricsMin == {200000, 300000} \X {200000, 300000}

AllGiven == {"train", "val", "epoch"}

CallOf(mode, fmt, has_new, given, train, val, epoch, best_only, report) ==
    [segment_subject |-> SubjectR, traindata_version |-> 1,
     model_architecture |-> ArchU, hyperparams_version |-> 0,
     monitor_metric_mode |-> mode, save_format |-> fmt,
     new_model |-> has_new, given |-> given,
     new_model_monitor_train |-> train, new_model_monitor_val |-> val,
     new_model_epoch |-> epoch,
     save_best_only |-> best_only, only_report |-> report]

\* calls without a new model
PlainCalls ==
    {CallOf("max", "tf", FALSE, {}, 0, 0, 0, b, r) : b \in BOOLEAN, r \in BOOLEAN}

\* calls with a new model and all of its metrics
CandidateCalls ==
    {CallOf("max", f, TRUE, AllGiven, m[1], m[2], e, b, FALSE) :
        m \in MetricsMax, f \in {"h5", "tf"}, e \in 1..MaxEpoch, b \in BOOLEAN}
    \cup
    \* dry runs, which leave the directory alone: epoch 1 only
    {CallOf("max", f, TRUE, AllGiven, m[1], m[2], 1, b, TRUE) :
        m \in MetricsMax, f \in {"h5", "tf"}, b \in BOOLEAN}
    \cup
    {CallOf("min", "tf", TRUE, AllGiven, m[1], m[2], e, FALSE, FALSE) :
        m \in MetricsMin, e \in 1..MaxEpoch}

\* calls with a new model of which a metric or the epoch is None
IncompleteCalls ==
    {CallOf("max", "tf", TRUE, g, 800000, 800000, 1, FALSE, FALSE) :
        g \in (SUBSET AllGiven) \ {AllGiven}}

\* calls with an invalid monitor_metric_mode or save_format
BadConfigCalls ==
    {CallOf("avg", "tf", TRUE, AllGiven, 800000, 800000, 1, FALSE, FALSE),
     CallOf("max", "pb", TRUE, AllGiven, 800000, 800000, 1, FALSE, FALSE),
     CallOf("avg", "pb", FALSE, {}, 0, 0, 0, FALSE, FALSE)}

Calls == PlainCalls \cup CandidateCalls \cup IncompleteCalls \cup BadConfigCalls

File(name) == [name |-> name, isdir |-> FALSE]
Dir(name) == [name |-> name, isdir |-> TRUE]

NameOf(version, hp, comb, train, val, epoch, fmt) ==
    format_model_filename(SubjectR, version, ArchU, hp, train, val, comb, epoch, fmt)

\* what the directory may hold before the first call
InitEntries ==
    {File(NameOf(1, 0, 800000, 799990, 800000, 1, "h5")),
     File(NameOf(1, 0, 800000, 800000, 800000, 2, "h5")),
     Dir(NameOf(1, 0, 900000, 900000, 900000, 1, "tf")),
     File(NameOf(2, 0, 900000, 900000, 900000, 1, "h5")),
     \* a name without accuracies
     File(SubjectR \o <<"_", "0", "1", "_">> \o ArchU \o SuffixHdf5),
     \* a plain file whose name ends on _tf
     File(NameOf(1, 0, 800000, 800000, 800000, 1, "tf")),
     \* one field only
     File(SubjectR \o SuffixHdf5),
     \* a traindata_version that is no integer
     File(SubjectR \o <<"_", "x", "_">> \o ArchU \o SuffixHdf5)}

ArchV == <<"v">>

\* what a directory searched with get_best_model may hold: two
\* traindata_versions, two architectures, two hyperparams_versions
QueryEntries ==
    {File(format_model_filename(SubjectR, 1, ArchU, 0, 799990, 800000, 800000, 1, "h5")),
     Dir(format_model_filename(SubjectR, 1, ArchU, 0, 900000, 900000, 900000, 1, "tf")),
     File(format_model_filename(SubjectR, 1, ArchU, 1, 900000, 900000, 900000, 3, "h5")),
     File(format_model_filename(SubjectR, 2, ArchU, 0, 700000, 700000, 700000, 1, "h5")),
     File(format_model_filename(SubjectR, 2, ArchV, 0, 950000, 950000, 950000, 1, "h5")),
     File(SubjectR \o <<"_", "0", "2", "_">> \o ArchU \o SuffixHdf5),
     File(SubjectR \o SuffixHdf5)}

\* the filters of a call of get_best_model: any of its four optional
\* arguments may be None
QueryFilters ==
    {[x \in given |-> f[x]] :
        f \in [segment_subject : {SubjectR}, traindata_version : {1, 2},
               model_architecture : {ArchU, ArchV}, hyperparams_version : {0, 1}],
        given \in SUBSET {"segment_subject", "traindata_version",
                          "model_architecture", "hyperparams_version"}}

\* ------------------------------------------------------------------------
\* The model directory and its scan
\* ------------------------------------------------------------------------
\* A directory entry is [name, isdir]; names are unique within a directory.

\* Path.exists()
Exists(dir, name) == \E e \in dir : e.name = name

\* lines 197-201: the three glob patterns
Glob(dir) ==
    {e \in dir : \/ EndsWith(e.name, SuffixHdf5)
                 \/ EndsWith(e.name, SuffixH5)
                 \/ EndsWith(e.name, SuffixTf)}

\* parse_model_filename on every entry a directory of the model can hold,
\* evaluated once
ParseTable ==
    {<<e, parse_model_filename(e.name, e.isdir)>> :
        e \in InitEntries \cup QueryEntries
                  \cup {NewModelEntry(c) : c \in CandidateCalls}}

Parsed(e) == (CHOOSE p \in ParseTable : p[1] = e)[2]

\* A filter maps the field names that are not None to the value required.
Matches(row, filter) == \A f \in DOMAIN filter : row[f] = filter[f]

\* lines 203-222 on the results of parse_model_filename for the paths listed
FilterModels(parsed, filter) ==
    IF \E p \in parsed : p.res = "raise" THEN [res |-> "raise"]
    ELSE [res |-> "ok",
          rows |-> {p.row : p \in {q \in parsed : q.res = "ok" /\ Matches(q.row, filter)}},
          columns |-> \E p \in parsed : p.res = "ok"]

\* get_models(model_dir, filters): the rows found, or the exception that
\* parse_model_filename raised on one of the entries.  columns tells whether
\* the DataFrame has its columns: DataFrame([]) of line 209 has none.
get_models(dir, filter) == FilterModels({Parsed(e) : e \in Glob(dir)}, filter)

NoFilter == [f \in {} |-> 0]

MaxVersion(rows) ==
    CHOOSE v \in {r.traindata_version : r \in rows} :
        \A r \in rows : r.traindata_version <= v

\* lines 33-37
MaxVersionOrNone(models) ==
    IF models.res = "ok" /\ models.rows # {} THEN MaxVersion(models.rows)
    ELSE -1

\* get_max_data_version(model_dir); callers reach it only after a scan of
\* the same directory has succeeded.
get_max_data_version(dir) == MaxVersionOrNone(get_models(dir, NoFilter))

\* lines 258-260: None for -1, else the rows of that traindata_version
AtVersion(max_data_version, rows) ==
    IF max_data_version = -1 THEN {}
    ELSE {r \in rows : r.traindata_version = max_data_version}

\* PinVersion taking the highest traindata_version of the filtered rows
PinVersionOfFiltered(dir, filter, rows) ==
    IF "traindata_version" \in DOMAIN filter THEN rows
    ELSE {r \in rows : \A o \in rows : o.traindata_version <= r.traindata_version}

\* lines 256-260: without a traindata_version filter, the rows of the
\* highest traindata_version of the directory
PinVersion(dir, filter, rows) ==
    IF "traindata_version" \in DOMAIN filter THEN rows
    ELSE AtVersion(get_max_data_version(dir), rows)

\* line 264: the rows argmax may return
ArgMaxCombined(rows) ==
    {r \in rows : \A o \in rows : o.acc_combined <= r.acc_combined}

\* lines 255-266 on the result of the scan of line 248
BestOf(models, dir, filter) ==
    IF models.res = "raise" THEN [res |-> "raise"]
    ELSE [res |-> "ok", rows |-> ArgMaxCombined(PinVersion(dir, filter, models.rows))]

\* get_best_model(model_dir, filters): the set of rows it may return (argmax
\* takes the first maximum in listing order, which the directory decides);
\* the empty set stands for None.
get_best_model(dir, filter) == BestOf(get_models(dir, filter), dir, filter)

\* ------------------------------------------------------------------------
\* Actions of save_and_clean_models
\* ------------------------------------------------------------------------
\* ConfigOk without the test of save_format
ConfigOkModeOnly(c) == c.monitor_metric_mode \in {"min", "max"}

ConfigOk(c) ==
    /\ c.monitor_metric_mode \in {"min", "max"}
    /\ c.save_format \in {"h5", "tf"}

\* MetricsComplete asking for the epoch only
MetricsCompleteEpochOnly(c) == c.new_model => "epoch" \in c.given

\* lines 412-416: a new model comes with both metrics and the epoch
MetricsComplete(c) == c.new_model => c.given = AllGiven

\* what every start of a call does
Enter(c) ==
    /\ pc = "idle"
    /\ ncycles < MaxCycles
    /\ ncycles' = ncycles + 1
    /\ call' = c
    /\ disk0' = disk
    /\ UNCHANGED <<disk, idx, verdict, ops, best, prev, codec, callback, query>>

Raise ==
    /\ pc' = "raised"
    /\ UNCHANGED <<new_model_path, model_info_df, sorted>>

\* lines 395-400
RaiseConfig(c) ==
    /\ Enter(c)
    /\ ~ConfigOk(c)
    /\ fs_reads' = 0
    /\ Raise

\* lines 403-408, parse_model_filename raising inside get_models
RaiseScan(c) ==
    /\ Enter(c)
    /\ ConfigOk(c)
    /\ get_models(disk, IdentityFilter(c)).res = "raise"
    /\ fs_reads' = 1
    /\ Raise

\* lines 414-417
RaiseMetrics(c) ==
    /\ Enter(c)
    /\ ConfigOk(c)
    /\ get_models(disk, IdentityFilter(c)).res = "ok"
    /\ ~MetricsComplete(c)
    /\ fs_reads' = 1
    /\ Raise

\* line 464 on a DataFrame without columns: sort_values raises KeyError
RaiseSort(c) ==
    /\ Enter(c)
    /\ ConfigOk(c)
    /\ get_models(disk, IdentityFilter(c)).res = "ok"
    /\ ~c.new_model
    /\ ~get_models(disk, IdentityFilter(c)).columns
    /\ fs_reads' = 1
    /\ Raise

\* lines 403-464: scan, append the new model, sort
Begin(c) ==
    /\ Enter(c)
    /\ ConfigOk(c)
    /\ get_models(disk, IdentityFilter(c)).res = "ok"
    /\ MetricsComplete(c)
    /\ c.new_model \/ get_models(disk, IdentityFilter(c)).columns
    /\ fs_reads' = 1
    /\ LET df == get_models(disk, IdentityFilter(c)).rows
                    \cup (IF c.new_model THEN {NewModelRow(c)} ELSE {})
       IN /\ model_info_df' = df
          /\ sorted' \in SortedOrders(df)
    /\ new_model_path' = IF c.new_model THEN NewModelFilename(c) ELSE <<>>
    /\ pc' = "loop"

\* MustSave without the test of new_model_path.exists()
MustSaveOverExisting(dir, path, c, model_info) ==
    /\ path # <<>>
    /\ ~c.only_report
    /\ model_info.filepath = [kind |-> "str", name |-> path]

\* lines 491-494
MustSave(dir, path, c, model_info) ==
    /\ path # <<>>
    /\ ~c.only_report
    /\ model_info.filepath = [kind |-> "str", name |-> path]
    /\ ~Exists(dir, path)

\* line 494 is evaluated only if the three tests before it hold
ExistsChecksKeep(path, c, model_info) ==
    IF /\ path # <<>>
       /\ ~c.only_report
       /\ model_info.filepath = [kind |-> "str", name |-> path]
    THEN 1 ELSE 0

\* MustDelete without the test of only_report
MustDeleteInDryRun(dir, c, model_info) == Exists(dir, model_info.filepath.name)

\* lines 509-511
MustDelete(dir, c, model_info) ==
    /\ ~c.only_report
    /\ Exists(dir, model_info.filepath.name)

\* lines 486-506: one iteration of the loop on a row that is kept
LoopKeep ==
    /\ pc = "loop"
    /\ idx < Len(sorted)
    /\ KeepModel(model_info_df, sorted[idx + 1], call.save_best_only)
    /\ IF MustSave(disk, new_model_path, call, sorted[idx + 1])
       THEN /\ disk' = disk \cup {[name |-> new_model_path,
                                   isdir |-> call.save_format = "tf"]}
            /\ ops' = Append(ops, [op |-> "persist", name |-> new_model_path])
       ELSE UNCHANGED <<disk, ops>>
    /\ fs_reads' = fs_reads + ExistsChecksKeep(new_model_path, call, sorted[idx + 1])
    /\ idx' = idx + 1
    /\ verdict' = Append(verdict, TRUE)
    /\ UNCHANGED <<pc, new_model_path, call, model_info_df, sorted, disk0, best,
                   prev, ncycles, codec, callback, query>>

\* lines 507-516: one iteration of the loop on a row that is not kept
LoopDiscard ==
    /\ pc = "loop"
    /\ idx < Len(sorted)
    /\ ~KeepModel(model_info_df, sorted[idx + 1], call.save_best_only)
    /\ IF MustDelete(disk, call, sorted[idx + 1])
       THEN /\ disk' = {e \in disk : e.name # sorted[idx + 1].filepath.name}
            /\ ops' = Append(ops, [op |-> "delete",
                                   name |-> sorted[idx + 1].filepath.name])
       ELSE UNCHANGED <<disk, ops>>
    /\ fs_reads' = fs_reads + (IF call.only_report THEN 0 ELSE 1)
    /\ idx' = idx + 1
    /\ verdict' = Append(verdict, FALSE)
    /\ UNCHANGED <<pc, new_model_path, call, model_info_df, sorted, disk0, best,
                   prev, ncycles, codec, callback, query>>

\* the filters of the get_best_model call of lines 524-528
ReportFilter(c) ==
    [segment_subject |-> c.segment_subject,
     model_architecture |-> c.model_architecture,
     traindata_version |-> c.traindata_version]

\* lines 523-530 with verbose (the default) or debug
FinishReport ==
    /\ pc = "loop"
    /\ idx = Len(sorted)
    /\ LET found == get_best_model(disk, ReportFilter(call))
       IN IF found.res = "raise"
          THEN pc' = "raised" /\ best' = <<>>
          ELSE /\ pc' = "returned"
               /\ IF found.rows = {} THEN best' = <<>>
                  ELSE \E b \in found.rows : best' = <<b>>
    /\ fs_reads' = fs_reads + 1
    /\ UNCHANGED <<disk, new_model_path, call, model_info_df, sorted, idx, verdict,
                   ops, disk0, prev, ncycles, codec, callback, query>>

\* line 523 with verbose and debug both False
FinishQuiet ==
    /\ pc = "loop"
    /\ idx = Len(sorted)
    /\ pc' = "returned"
    /\ UNCHANGED <<disk, new_model_path, call, model_info_df, sorted, idx, verdict,
                   ops, disk0, best, prev, ncycles, codec, fs_reads, callback, query>>

NoCallback == [state |-> "none"]

NoQuery == [phase |-> "off"]

NoCall == CallOf("max", "tf", FALSE, {}, 0, 0, 0, FALSE, FALSE)

\* The call is over: control is back in the caller and the locals are gone.
\* prev remembers a call that returned without having had a new model.
Return ==
    /\ pc \in {"returned", "raised"}
    /\ pc' = "idle"
    /\ prev' = IF pc = "returned" /\ ~call.new_model
               THEN <<[call |-> call, ops |-> ops]>> ELSE <<>>
    /\ new_model_path' = <<>>
    /\ call' = NoCall
    /\ model_info_df' = {}
    /\ sorted' = <<>>
    /\ idx' = 0
    /\ verdict' = <<>>
    /\ ops' = <<>>
    /\ best' = <<>>
    /\ disk0' = disk
    /\ fs_reads' = 0
    /\ UNCHANGED <<disk, ncycles, codec, callback, query>>

\* ------------------------------------------------------------------------
\* ModelCheckpointExt
\* ------------------------------------------------------------------------
\* the constructor arguments that vary; the identity is that of CallOf
CallbackArgs ==
    {[monitor_metric_mode |-> "max", save_format |-> "tf",
      save_best_only |-> b, only_report |-> FALSE] : b \in BOOLEAN}
    \cup
    {[monitor_metric_mode |-> "avg", save_format |-> "tf",
      save_best_only |-> FALSE, only_report |-> FALSE],
     [monitor_metric_mode |-> "max", save_format |-> "pb",
      save_best_only |-> FALSE, only_report |-> FALSE]}

\* lines 307-327: the constructor raises, or stores its arguments
ModelCheckpointExt_init(k) ==
    /\ pc = "idle"
    /\ callback.state # "ok"
    /\ callback' = [state |-> IF ConfigOk(k) THEN "ok" ELSE "raised", args |-> k]
    /\ UNCHANGED <<disk, pc, new_model_path, call, model_info_df, sorted, idx,
                   verdict, ops, disk0, best, prev, ncycles, codec, fs_reads, query>>

\* the values the epoch report may hold for the two monitored metrics
EpochMetrics == {<<800000, 900000>>, <<900000, 900000>>}

\* lines 332-348: the arguments on_epoch_end passes on; logs.get gives None
\* for a metric that is not in logs
EpochCall(k, epoch, logs, m) ==
    CallOf(k.monitor_metric_mode, k.save_format, TRUE, logs \cup {"epoch"},
           m[1], m[2], epoch, k.save_best_only, k.only_report)

\* lines 329-348: the call of save_and_clean_models up to its loop
on_epoch_end(epoch, logs, m) ==
    /\ callback.state = "ok"
    /\ \/ RaiseScan(EpochCall(callback.args, epoch, logs, m))
       \/ RaiseMetrics(EpochCall(callback.args, epoch, logs, m))
       \/ Begin(EpochCall(callback.args, epoch, logs, m))

\* ------------------------------------------------------------------------
\* The codec on its own: format_model_filename, then parse_model_filename
\* ------------------------------------------------------------------------
ArchAlphabet == {"u", "3", "+", "_"}

ArchStrings == UNION {[1..n -> ArchAlphabet] : n \in 0..MaxArchLen}

\* isdir: whether the path given to parse_model_filename is a directory
CodecInputs ==
    [segment_subject : {SubjectR},
     traindata_version : {0, 12},
     model_architecture : ArchStrings,
     hyperparams_version : {0, 3},
     acc : {[acc_combined |-> 800000, acc_train |-> 799990, acc_val |-> 800010],
            [acc_combined |-> 0, acc_train |-> 0, acc_val |-> 1000000]},
     epoch : {0, 7},
     save_format : {"h5", "tf"},
     isdir : BOOLEAN]

CodecOff == [phase |-> "off"]

CodecEncode ==
    /\ codec.phase = "input"
    /\ codec' = [codec EXCEPT
                   !.phase = "encoded",
                   !.name = format_model_filename(
                                codec.args.segment_subject,
                                codec.args.traindata_version,
                                codec.args.model_architecture,
                                codec.args.hyperparams_version,
                                codec.args.acc.acc_train,
                                codec.args.acc.acc_val,
                                codec.args.acc.acc_combined,
                                codec.args.epoch,
                                codec.args.save_format)]
    /\ UNCHANGED <<disk, pc, new_model_path, call, model_info_df, sorted, idx,
                   verdict, ops, disk0, best, prev, ncycles, fs_reads, callback, query>>

CodecDecode ==
    /\ codec.phase = "encoded"
    /\ codec' = [codec EXCEPT
                   !.phase = "decoded",
                   !.parsed = parse_model_filename(codec.name, codec.args.isdir)]
    /\ UNCHANGED <<disk, pc, new_model_path, call, model_info_df, sorted, idx,
                   verdict, ops, disk0, best, prev, ncycles, fs_reads, callback, query>>

Init ==
    /\ disk \in {d \in SUBSET InitEntries :
                    /\ Cardinality(d) <= MaxInitFiles
                    /\ \A e1, e2 \in d : e1.name = e2.name => e1 = e2}
    /\ pc = "idle"
    /\ new_model_path = <<>>
    /\ call = NoCall
    /\ model_info_df = {}
    /\ sorted = <<>>
    /\ idx = 0
    /\ verdict = <<>>
    /\ ops = <<>>
    /\ disk0 = disk
    /\ best = <<>>
    /\ prev = <<>>
    /\ ncycles = 0
    /\ codec = CodecOff
    /\ fs_reads = 0
    /\ callback = NoCallback
    /\ query = NoQuery

Next ==
    \/ \E c \in Calls : RaiseConfig(c)
    \/ \E c \in Calls : RaiseScan(c)
    \/ \E c \in Calls : RaiseMetrics(c)
    \/ \E c \in Calls : RaiseSort(c)
    \/ \E c \in Calls : Begin(c)
    \/ LoopKeep
    \/ LoopDiscard
    \/ FinishReport
    \/ FinishQuiet
    \/ Return

Spec == Init /\ [][Next]_vars

CodecInit ==
    /\ disk = {}
    /\ pc = "idle"
    /\ new_model_path = <<>>
    /\ call = NoCall
    /\ model_info_df = {}
    /\ sorted = <<>>
    /\ idx = 0
    /\ verdict = <<>>
    /\ ops = <<>>
    /\ disk0 = {}
    /\ best = <<>>
    /\ prev = <<>>
    /\ ncycles = 0
    /\ fs_reads = 0
    /\ callback = NoCallback
    /\ query = NoQuery
    /\ codec \in {[phase |-> "input", args |-> a, name |-> <<>>, parsed |-> ParseNone] :
                     a \in CodecInputs}

CodecNext == CodecEncode \/ CodecDecode

SpecCodec == CodecInit /\ [][CodecNext]_vars

\* what the directory may hold before a training run with the callback
CallbackEntries ==
    {File(NameOf(1, 0, 800000, 799990, 800000, 1, "h5")),
     Dir(NameOf(1, 0, 900000, 900000, 900000, 1, "tf")),
     \* a model trained with other hyper parameters
     File(format_model_filename(SubjectR, 1, ArchU, 1, 900000, 900000, 900000, 3, "h5")),
     File(SubjectR \o SuffixHdf5)}

CallbackInit ==
    /\ disk \in {d \in SUBSET CallbackEntries : Cardinality(d) <= MaxInitFiles}
    /\ pc = "idle"
    /\ new_model_path = <<>>
    /\ call = NoCall
    /\ model_info_df = {}
    /\ sorted = <<>>
    /\ idx = 0
    /\ verdict = <<>>
    /\ ops = <<>>
    /\ disk0 = disk
    /\ best = <<>>
    /\ prev = <<>>
    /\ ncycles = 0
    /\ codec = CodecOff
    /\ fs_reads = 0
    /\ callback = NoCallback
    /\ query = NoQuery

\* the direct calls made next to a training run: the new models come from
\* the callback
DirectCalls == PlainCalls \cup IncompleteCalls \cup BadConfigCalls

CallbackNext ==
    \/ \E c \in DirectCalls : RaiseConfig(c)
    \/ \E c \in DirectCalls : RaiseScan(c)
    \/ \E c \in DirectCalls : RaiseMetrics(c)
    \/ \E c \in DirectCalls : RaiseSort(c)
    \/ \E c \in DirectCalls : Begin(c)
    \/ LoopKeep
    \/ LoopDiscard
    \/ FinishReport
    \/ FinishQuiet
    \/ Return
    \/ \E k \in CallbackArgs : ModelCheckpointExt_init(k)
    \/ \E e \in 1..MaxEpoch, logs \in SUBSET {"train", "val"}, m \in EpochMetrics :
          on_epoch_end(e, logs, m)

SpecCallback == CallbackInit /\ [][CallbackNext]_vars

\* ------------------------------------------------------------------------
\* Properties
\* ------------------------------------------------------------------------
InCycle == pc \in {"loop", "returned"}

\* the decodable entries of dir that carry the identity of call c
ModelsOnDisk(dir, c) ==
    {e \in Glob(dir) : /\ Parsed(e).res = "ok"
                       /\ Matches(Parsed(e).row, IdentityFilter(c))}

Dominates3(a, b) ==
    /\ a.acc_combined >= b.acc_combined
    /\ a.acc_train >= b.acc_train
    /\ a.acc_val >= b.acc_val

MaxCombined(rows) ==
    CHOOSE m \in {r.acc_combined : r \in rows} : \A r \in rows : r.acc_combined <= m

IsPersist(o) == o.op = "persist"
IsDelete(o) == o.op = "delete"

\* C1: in a call that is no dry run and has a non-empty record set, once the
\* first persist or delete has happened, at every later point of the call
\* at least one model file of the call's identity is on disk.
CrashSafety ==
    (InCycle /\ ~call.only_report /\ model_info_df # {} /\ ops # <<>>)
        => ModelsOnDisk(disk, call) # {}

\* C2: an on-disk record that the new model is >= on the compared axes is
\* deleted only while the new model's file is on disk.
SupersededDeletedAfterSave ==
    [][(/\ pc = "loop"
        /\ new_model_path # <<>>
        /\ Len(ops') = Len(ops) + 1
        /\ IsDelete(ops'[Len(ops')])
        /\ sorted[idx + 1].filepath.kind = "Path"
        /\ \E o \in (IF call.save_best_only
                     THEN BetterOnesBestOnly(model_info_df, sorted[idx + 1])
                     ELSE BetterOnesPareto(model_info_df, sorted[idx + 1])) :
              o.filepath.kind = "str")
       => Exists(disk, new_model_path)]_vars

\* C3: when the new model is kept and an existing record is discarded, every
\* delete of the call comes after the persist of the new model.
SaveBeforeDelete ==
    (/\ InCycle
     /\ new_model_path # <<>>
     /\ \E r \in model_info_df :
           /\ r.filepath.kind = "str"
           /\ KeepModel(model_info_df, r, call.save_best_only)
     /\ \E r \in model_info_df :
           /\ r.filepath.kind = "Path"
           /\ ~KeepModel(model_info_df, r, call.save_best_only))
        => \A i \in 1..Len(ops) :
              IsDelete(ops[i]) => \E j \in 1..(i - 1) : IsPersist(ops[j])

\* C4: after a completed call that is no dry run, the file of a record with
\* the highest acc_combined of the record set is on disk; if that record is
\* the new model, the call has persisted it.
BestRetained ==
    (pc = "returned" /\ ~call.only_report /\ model_info_df # {})
        => \E r \in model_info_df :
              /\ r.acc_combined = MaxCombined(model_info_df)
              /\ Exists(disk, r.filepath.name)
              /\ (r.filepath.kind = "str" =>
                     \E i \in 1..Len(ops) :
                        IsPersist(ops[i]) /\ ops[i].name = r.filepath.name)

\* C5: with save_best_only a record whose acc_combined is the maximum of the
\* record set, alone or tied, is kept; a discarded record has an
\* acc_combined strictly below that of some other record.
BestOnlyKeepsMaximal ==
    (InCycle /\ call.save_best_only)
        => \A i \in 1..idx :
              /\ (sorted[i].acc_combined = MaxCombined(model_info_df) => verdict[i])
              /\ (~verdict[i] =>
                     \E o \in model_info_df :
                        o.acc_combined > sorted[i].acc_combined)

\* C6: without save_best_only a record is discarded exactly when another
\* record of the record set is >= it on acc_combined, acc_train and acc_val;
\* so a record is discarded whenever a record that is >= it on all three
\* axes, and > on one, is present.
ParetoClassification ==
    (InCycle /\ ~call.save_best_only)
        => \A i \in 1..idx :
              /\ ~verdict[i] <=>
                    \E o \in model_info_df \ {sorted[i]} : Dominates3(o, sorted[i])
              /\ \A a \in model_info_df :
                    (Dominates3(a, sorted[i]) /\ ~Dominates3(sorted[i], a))
                        => ~verdict[i]

\* a kept and a discarded row under the pareto policy, the discarded one
\* strictly dominated, the kept one not the best on acc_combined
ParetoClassificationWitness ==
    /\ pc = "returned" /\ ~call.save_best_only
    /\ \E i, j \in 1..idx :
          /\ verdict[i] /\ ~verdict[j]
          /\ sorted[i].acc_combined < MaxCombined(model_info_df)
          /\ \E a \in model_info_df :
                Dominates3(a, sorted[j]) /\ ~Dominates3(sorted[j], a)

\* C7: a call without a new model that follows a returned call without a
\* new model and with the same arguments persists and deletes nothing.
Idempotence ==
    (InCycle /\ prev # <<>> /\ prev[1].call = call /\ ~call.new_model)
        => (ops = <<>> /\ disk = disk0)

\* the second of two such calls has returned, the first having deleted
IdempotenceWitness ==
    /\ pc = "returned" /\ prev # <<>> /\ prev[1].call = call
    /\ ~call.new_model /\ ~call.only_report
    /\ prev[1].ops # <<>>
    /\ model_info_df # {}

\* C8 as stated: parse_model_filename of the name format_model_filename
\* produced (the path being a directory exactly for save_format tf, as the
\* save leaves it) returns the original fields, for every subject without
\* "_", every architecture and every hyperparams_version >= 0.
RoundTripFields ==
    /\ codec.parsed.res = "ok"
    /\ codec.parsed.row.segment_subject = codec.args.segment_subject
    /\ codec.parsed.row.traindata_version = codec.args.traindata_version
    /\ codec.parsed.row.model_architecture = codec.args.model_architecture
    /\ codec.parsed.row.hyperparams_version = codec.args.hyperparams_version
    /\ codec.parsed.row.acc_combined = codec.args.acc.acc_combined
    /\ codec.parsed.row.acc_train = codec.args.acc.acc_train
    /\ codec.parsed.row.acc_val = codec.args.acc.acc_val
    /\ codec.parsed.row.epoch = codec.args.epoch
    /\ codec.parsed.row.save_format = codec.args.save_format

SavedAs(a) == a.isdir <=> (a.save_format = "tf")

RoundTripAnyArchitecture ==
    (codec.phase = "decoded" /\ SavedAs(codec.args)) => RoundTripFields

\* the architectures the codec can carry: no "_", and with
\* hyperparams_version 0 a last "+"-part that is not a digit string
ArchEncodable(arch, hp) ==
    /\ \A i \in 1..Len(arch) : arch[i] # "_"
    /\ hp = 0 => ~IsDigit(Split(arch, "+")[Len(Split(arch, "+"))])

\* C8, amended: the round trip returns the original fields when moreover the
\* architecture holds no "_" and, for hyperparams_version 0, its last
\* "+"-separated part is not a digit string.
RoundTrip ==
    (/\ codec.phase = "decoded"
     /\ SavedAs(codec.args)
     /\ ArchEncodable(codec.args.model_architecture, codec.args.hyperparams_version))
        => RoundTripFields

\* a round trip of a "+"-joined architecture with a hyperparams_version,
\* saved as a directory
RoundTripWitness ==
    /\ codec.phase = "decoded"
    /\ codec.args.save_format = "tf" /\ codec.args.isdir
    /\ codec.args.hyperparams_version = 3
    /\ codec.args.model_architecture = <<"u", "+", "3">>
    /\ codec.args.acc.acc_train = 799990
    /\ RoundTripFields

\* C9: the row of the new model holds 1 - raw metric for mode min, the raw
\* metric for mode max, and as acc_combined the mean of the two.
MetricNormalization ==
    (InCycle /\ call.new_model)
        => \E r \in model_info_df :
              /\ r.filepath.kind = "str"
              /\ r.acc_train = IF call.monitor_metric_mode = "min"
                               THEN One - call.new_model_monitor_train
                               ELSE call.new_model_monitor_train
              /\ r.acc_val = IF call.monitor_metric_mode = "min"
                             THEN One - call.new_model_monitor_val
                             ELSE call.new_model_monitor_val
              /\ 2 * r.acc_combined = r.acc_train + r.acc_val

\* mode min, raw train 0.2, raw val 0.3: stored 0.8, 0.7, 0.75
MetricNormalizationWitness ==
    /\ pc = "returned"
    /\ call.new_model /\ call.monitor_metric_mode = "min"
    /\ call.new_model_monitor_train = 200000
    /\ call.new_model_monitor_val = 300000
    /\ \E r \in model_info_df :
          /\ r.filepath.kind = "str"
          /\ r.acc_train = 800000 /\ r.acc_val = 700000 /\ r.acc_combined = 750000

\* C10: an entry of the directory that cannot be decoded does not make the
\* call raise, and the rows of the other entries are all in the record set.
DecodeFailureNonFatal ==
    /\ (pc = "raised" /\ ConfigOk(call))
          => get_models(disk0, IdentityFilter(call)).res = "ok"
    /\ InCycle =>
          {r \in model_info_df : r.filepath.kind = "Path"}
              = {Parsed(e).row : e \in ModelsOnDisk(disk0, call)}

\* ------------------------------------------------------------------------
\* get_best_model on its own
\* ------------------------------------------------------------------------
\* lines 224-266: the call returns a row, None, or raises with the scan
BestModelQuery ==
    /\ query.phase = "asked"
    /\ LET found == get_best_model(disk, query.filter)
       IN \/ /\ found.res = "raise"
             /\ query' = [query EXCEPT !.phase = "raised"]
          \/ /\ found.res = "ok" /\ found.rows = {}
             /\ query' = [query EXCEPT !.phase = "none found"]
          \/ /\ found.res = "ok"
             /\ \E b \in found.rows :
                   query' = [query EXCEPT !.phase = "found", !.row = b]
    /\ UNCHANGED <<disk, pc, new_model_path, call, model_info_df, sorted, idx,
                   verdict, ops, disk0, best, prev, ncycles, codec, fs_reads, callback>>

QueryInit ==
    /\ disk \in {d \in SUBSET QueryEntries : Cardinality(d) <= MaxInitFiles}
    /\ pc = "idle"
    /\ new_model_path = <<>>
    /\ call = NoCall
    /\ model_info_df = {}
    /\ sorted = <<>>
    /\ idx = 0
    /\ verdict = <<>>
    /\ ops = <<>>
    /\ disk0 = disk
    /\ best = <<>>
    /\ prev = <<>>
    /\ ncycles = 0
    /\ codec = CodecOff
    /\ fs_reads = 0
    /\ callback = NoCallback
    /\ query \in {[phase |-> "asked", filter |-> f, row |-> <<>>] : f \in QueryFilters}

QueryNext == BestModelQuery

SpecQuery == QueryInit /\ [][QueryNext]_vars

\* ------------------------------------------------------------------------
\* The delete branch next to another process that removes entries
\* ------------------------------------------------------------------------
\* lines 507-511: the row is not kept; in a dry run, or if its path does not
\* exist, nothing more happens to it
DiscardCheck ==
    /\ pc = "loop"
    /\ idx < Len(sorted)
    /\ ~KeepModel(model_info_df, sorted[idx + 1], call.save_best_only)
    /\ IF MustDelete(disk, call, sorted[idx + 1])
       THEN /\ pc' = "deleting"
            /\ UNCHANGED <<idx, verdict>>
       ELSE /\ pc' = "loop"
            /\ idx' = idx + 1
            /\ verdict' = Append(verdict, FALSE)
    /\ fs_reads' = fs_reads + (IF call.only_report THEN 0 ELSE 1)
    /\ UNCHANGED <<disk, new_model_path, call, model_info_df, sorted, ops, disk0,
                   best, prev, ncycles, codec, callback, query>>

\* lines 513-516 on a path that is still there
DiscardDelete ==
    /\ pc = "deleting"
    /\ Exists(disk, sorted[idx + 1].filepath.name)
    /\ disk' = {e \in disk : e.name # sorted[idx + 1].filepath.name}
    /\ ops' = Append(ops, [op |-> "delete", name |-> sorted[idx + 1].filepath.name])
    /\ pc' = "loop"
    /\ idx' = idx + 1
    /\ verdict' = Append(verdict, FALSE)
    /\ UNCHANGED <<new_model_path, call, model_info_df, sorted, disk0, best, prev,
                   ncycles, codec, fs_reads, callback, query>>

\* lines 513-516 on a path that is gone: is_dir() is False, and unlink()
\* raises FileNotFoundError (as rmtree does if the directory goes after
\* is_dir)
DiscardDeleteRaise ==
    /\ pc = "deleting"
    /\ ~Exists(disk, sorted[idx + 1].filepath.name)
    /\ pc' = "raised"
    /\ UNCHANGED <<disk, new_model_path, call, model_info_df, sorted, idx, verdict,
                   ops, disk0, best, prev, ncycles, codec, fs_reads, callback, query>>

\* another process removes an entry of the directory while the loop runs
ExternalRemove(e) ==
    /\ pc \in {"loop", "deleting"}
    /\ e \in disk
    /\ disk' = disk \ {e}
    /\ UNCHANGED <<pc, new_model_path, call, model_info_df, sorted, idx, verdict,
                   ops, disk0, best, prev, ncycles, codec, fs_reads, callback, query>>

\* the calls made while another process cleans the directory
RaceCalls ==
    DirectCalls
    \cup {CallOf("max", "h5", TRUE, AllGiven, m, m, e, b, FALSE) :
            m \in {800000, 900000}, e \in 1..MaxEpoch, b \in BOOLEAN}

RaceNext ==
    \/ \E c \in RaceCalls : RaiseConfig(c)
    \/ \E c \in RaceCalls : RaiseScan(c)
    \/ \E c \in RaceCalls : RaiseMetrics(c)
    \/ \E c \in RaceCalls : RaiseSort(c)
    \/ \E c \in RaceCalls : Begin(c)
    \/ LoopKeep
    \/ DiscardCheck
    \/ DiscardDelete
    \/ DiscardDeleteRaise
    \/ \E e \in disk : ExternalRemove(e)
    \/ FinishReport
    \/ FinishQuiet
    \/ Return

SpecRace == Init /\ [][RaceNext]_vars

\* ------------------------------------------------------------------------
\* parse_model_filename on its own, on names of 3 and more fields
\* ------------------------------------------------------------------------
FieldAcc == <<"0", ".", "8", "0", "0", "0", "0">>
FieldEpoch == <<"7">>

\* "r_01_u" followed by up to MaxExtraFields fields, each an accuracy or an
\* epoch, then a suffix
ParseNames ==
    {Join(<<SubjectR, <<"0", "1">>, ArchU>> \o extra, "_") \o suffix :
        extra \in UNION {[1..n -> {FieldAcc, FieldEpoch}] : n \in 0..MaxExtraFields},
        suffix \in {SuffixHdf5, SuffixTf}}

ParseInit ==
    /\ disk = {}
    /\ pc = "idle"
    /\ new_model_path = <<>>
    /\ call = NoCall
    /\ model_info_df = {}
    /\ sorted = <<>>
    /\ idx = 0
    /\ verdict = <<>>
    /\ ops = <<>>
    /\ disk0 = {}
    /\ best = <<>>
    /\ prev = <<>>
    /\ ncycles = 0
    /\ fs_reads = 0
    /\ callback = NoCallback
    /\ query = NoQuery
    /\ codec \in {[phase |-> "encoded", args |-> [isdir |-> d], name |-> n,
                    parsed |-> ParseNone] : n \in ParseNames, d \in BOOLEAN}

ParseNext == CodecDecode

SpecParse == ParseInit /\ [][ParseNext]_vars

\* ------------------------------------------------------------------------
\* Properties, continued
\* ------------------------------------------------------------------------
\* the configuration is not one that lines 395-400 and 307-312 accept
BadConfig(c) ==
    \/ c.monitor_metric_mode \notin {"min", "max"}
    \/ c.save_format \notin {"h5", "tf"}

\* C11: a call of save_and_clean_models with an invalid monitor_metric_mode
\* or save_format raises without having listed the directory, checked a path,
\* persisted or deleted, and leaves the directory as it was; a constructor
\* given such values raises, and no constructor call touches the directory.
ConfigRejectedFirst ==
    /\ [](BadConfig(call) =>
             (pc = "raised" /\ fs_reads = 0 /\ ops = <<>> /\ disk = disk0))
    /\ [](callback.state # "none" =>
             (BadConfig(callback.args) <=> callback.state = "raised"))
    /\ [][callback' # callback =>
             (disk' = disk /\ fs_reads' = fs_reads /\ ops' = ops)]_vars

\* a call with an invalid save_format has raised on a directory that holds
\* something, after a constructor with an invalid value has raised
ConfigRejectedFirstWitness ==
    /\ pc = "raised" /\ BadConfig(call) /\ call.save_format = "pb"
    /\ disk # {}
    /\ callback.state = "raised" /\ BadConfig(callback.args)

\* C12: a call with a new model of which the train metric, the validation
\* metric or the epoch is None (from a direct call, or from on_epoch_end when
\* the epoch report lacks a monitored metric) raises and neither persists
\* nor deletes.
IncompleteMetricsFatal ==
    (call.new_model /\ call.given # AllGiven)
        => (pc = "raised" /\ ops = <<>> /\ disk = disk0)

\* on_epoch_end with a report that lacks the validation metric has raised,
\* the directory holding a model of the identity
IncompleteMetricsFatalWitness ==
    /\ pc = "raised" /\ callback.state = "ok"
    /\ call.new_model /\ call.given = {"train", "epoch"}
    /\ get_models(disk, IdentityFilter(call)).res = "ok"
    /\ ModelsOnDisk(disk, call) # {}
    /\ ops = <<>>

\* C13: a call with only_report=True persists nothing and deletes nothing,
\* whatever the directory, the new model and the policy: at every point of
\* the call, and after it, the directory holds what it held before.
DryRun ==
    call.only_report => (ops = <<>> /\ disk = disk0)

\* a dry run has returned that classified a file on disk as discard and a
\* new model, not on disk, as keep
DryRunWitness ==
    /\ pc = "returned" /\ call.only_report
    /\ \E i, j \in 1..idx :
          /\ ~verdict[i] /\ sorted[i].filepath.kind = "Path"
          /\ Exists(disk, sorted[i].filepath.name)
          /\ verdict[j] /\ sorted[j].filepath.kind = "str"
          /\ ~Exists(disk, sorted[j].filepath.name)

\* the rows of all decodable entries of a directory
RowsOf(dir) == {Parsed(e).row : e \in {g \in Glob(dir) : Parsed(g).res = "ok"}}

\* the rows get_best_model has to choose from: those that match the filter,
\* at the highest traindata_version of the whole directory when the filter
\* names none
Eligible(dir, filter) ==
    {r \in RowsOf(dir) :
        /\ Matches(r, filter)
        /\ "traindata_version" \notin DOMAIN filter =>
              \A o \in RowsOf(dir) : o.traindata_version <= r.traindata_version}

\* C14: when get_best_model returns, it returns None exactly when no row
\* matches the filters at the pinned traindata_version (the one given, else
\* the highest of the unfiltered directory), and otherwise one of those rows
\* with the highest acc_combined.
BestModelPinned ==
    /\ query.phase = "none found" => Eligible(disk, query.filter) = {}
    /\ query.phase = "found" =>
          /\ query.row \in Eligible(disk, query.filter)
          /\ \A o \in Eligible(disk, query.filter) :
                o.acc_combined <= query.row.acc_combined

\* no traindata_version given, an architecture given: the directory holds a
\* model of that architecture at version 1 only and one of another
\* architecture at version 2, and the answer is None
BestModelPinnedWitness ==
    /\ query.phase = "none found"
    /\ DOMAIN query.filter = {"model_architecture"}
    /\ \E r \in RowsOf(disk) : Matches(r, query.filter)
    /\ \E r \in RowsOf(disk) : ~Matches(r, query.filter) /\ r.traindata_version = 2

\* C15: the best model a returned call reports is the file of a row of the
\* call's record set that was classified keep, and no kept row has a higher
\* acc_combined.
ReportedBestIsSurvivor ==
    (pc = "returned" /\ best # <<>>)
        => \E i \in 1..idx :
              /\ verdict[i]
              /\ sorted[i].filepath.name = best[1].filepath.name
              /\ Matches(best[1], IdentityFilter(call))
              /\ \A j \in 1..idx :
                    verdict[j] => sorted[j].acc_combined <= sorted[i].acc_combined

\* C16: with save_best_only a record is classified discard exactly when
\* another record of the call's record set has an acc_combined >= its own.
BestOnlyClassification ==
    (InCycle /\ call.save_best_only)
        => \A i \in 1..idx :
              ~verdict[i] <=>
                  \E o \in model_info_df \ {sorted[i]} :
                     o.acc_combined >= sorted[i].acc_combined

\* two files, 0.9 and 0.8: the first is kept, the second is discarded and
\* deleted, and the best model reported is the first
BestOnlyClassificationWitness ==
    /\ pc = "returned" /\ call.save_best_only /\ ~call.only_report
    /\ idx = 2
    /\ verdict = <<TRUE, FALSE>>
    /\ sorted[1].acc_combined = 900000 /\ sorted[2].acc_combined = 800000
    /\ sorted[1].filepath.kind = "Path" /\ sorted[2].filepath.kind = "Path"
    /\ best # <<>> /\ best[1] = sorted[1]
    /\ ~Exists(disk, sorted[2].filepath.name)

\* C17: the record set a call classifies never holds two distinct records
\* of the same file name: a new model whose name is already on disk is not
\* a second record next to the one of the file.
FilepathUnique ==
    InCycle =>
        \A a, b \in model_info_df : a.filepath.name = b.filepath.name => a = b

\* the name has the suffix of a model: _tf for a directory, .h5 or .hdf5
\* for a file
ValidSuffix(name, isdir) ==
    IF isdir THEN EndsWith(name, SuffixTf)
    ELSE PathSuffix(name) \in {SuffixH5, SuffixHdf5}

\* the "_"-separated fields of the name without its suffix
StemFields(name, isdir) ==
    Split(IF isdir THEN SubSeq(name, 1, Len(name) - Len(SuffixTf)) ELSE PathStem(name),
          "_")

\* C18: parse_model_filename on a name with a valid suffix and 3 to 6 fields
\* returns a row with acc_combined, acc_train, acc_val and epoch all zero;
\* with 7 or more fields, fields 4 to 7 give the row's acc_combined,
\* acc_train, acc_val and epoch.
DegradedDecode ==
    (codec.phase = "decoded" /\ ValidSuffix(codec.name, codec.args.isdir))
        => /\ (/\ Len(StemFields(codec.name, codec.args.isdir)) >= 3
               /\ Len(StemFields(codec.name, codec.args.isdir)) < 7)
                  => /\ codec.parsed.res = "ok"
                     /\ codec.parsed.row.acc_combined = 0
                     /\ codec.parsed.row.acc_train = 0
                     /\ codec.parsed.row.acc_val = 0
                     /\ codec.parsed.row.epoch = 0
           /\ (/\ Len(StemFields(codec.name, codec.args.isdir)) >= 7
               /\ codec.parsed.res = "ok")
                  => /\ codec.parsed.row.acc_combined
                           = StrToFloat(StemFields(codec.name, codec.args.isdir)[4])
                     /\ codec.parsed.row.acc_train
                           = StrToFloat(StemFields(codec.name, codec.args.isdir)[5])
                     /\ codec.parsed.row.acc_val
                           = StrToFloat(StemFields(codec.name, codec.args.isdir)[6])
                     /\ codec.parsed.row.epoch
                           = StrToNat(StemFields(codec.name, codec.args.isdir)[7])

\* C19: a call persists at most once, and only the new model, under its
\* encoded path, when its row is classified keep and nothing exists at that
\* path when the save is called; a call without a new model never persists.
PersistDiscipline ==
    /\ [](Cardinality({i \in 1..Len(ops) : IsPersist(ops[i])}) <= 1)
    /\ [](\A i \in 1..Len(ops) :
             IsPersist(ops[i]) =>
                /\ call.new_model
                /\ ops[i].name = new_model_path
                /\ \E r \in model_info_df :
                      /\ r.filepath = [kind |-> "str", name |-> new_model_path]
                      /\ KeepModel(model_info_df, r, call.save_best_only))
    /\ [][(Len(ops') = Len(ops) + 1 /\ IsPersist(ops'[Len(ops')]))
            => ~Exists(disk, ops'[Len(ops')].name)]_vars

\* a call has saved its new model, which was not on disk before, and
\* deleted a file
PersistDisciplineWitness ==
    /\ pc = "returned" /\ call.new_model
    /\ \E i, j \in 1..Len(ops) : IsPersist(ops[i]) /\ IsDelete(ops[j])
    /\ Exists(disk, new_model_path) /\ ~Exists(disk0, new_model_path)

\* C20: when the loop is at a row classified discard (no dry run) whose file
\* or directory is absent, be it at the existence check or after it, the
\* step the call takes is a no-op: it goes on to the next row without
\* raising and without touching the directory.
DeleteRaceNoOp ==
    [][(/\ pc \in {"loop", "deleting"}
        /\ idx < Len(sorted)
        /\ ~KeepModel(model_info_df, sorted[idx + 1], call.save_best_only)
        /\ ~call.only_report
        /\ ~Exists(disk, sorted[idx + 1].filepath.name)
        /\ disk' = disk)
       => (pc' = "loop" /\ idx' = idx + 1 /\ ops' = ops)]_vars

\* the entry is not a model of the identity of call c: it decodes to
\* another identity, or does not decode
Foreign(e, c) ==
    \/ Parsed(e).res # "ok"
    \/ ~Matches(Parsed(e).row, IdentityFilter(c))

\* C21: a call neither creates nor removes a directory entry that decodes
\* to another identity than the call's own or that does not decode: at
\* every point of the call every such entry is on disk exactly if it was
\* when the call started.
IdentityIsolation ==
    InCycle =>
        \A e \in disk0 \cup disk : Foreign(e, call) => (e \in disk0 <=> e \in disk)

\* the rows of the models of the call's identity that are on disk
RowsOnDisk(dir, c) == {Parsed(e).row : e \in ModelsOnDisk(dir, c)}

\* under the policy, row r is discard relative to the other rows of rows
DiscardAmong(rows, r, save_best_only) ==
    \E o \in rows \ {r} :
       IF save_best_only THEN o.acc_combined >= r.acc_combined
       ELSE Dominates3(o, r)

\* C22: after a returned call that is no dry run, no model of the call's
\* identity on disk is discard relative to the other ones on disk, and the
\* files of that identity on disk are exactly those of the rows the call
\* classified keep.
FrontierInvariant ==
    (pc = "returned" /\ ~call.only_report)
        => /\ \A r \in RowsOnDisk(disk, call) :
                 ~DiscardAmong(RowsOnDisk(disk, call), r, call.save_best_only)
           /\ {r.filepath.name : r \in RowsOnDisk(disk, call)}
                 = {sorted[i].filepath.name : i \in {j \in 1..idx : verdict[j]}}

====
